---- MODULE Spec2Model ----
(***************************************************************************)
(* claimsFlow: the orchestration-and-telemetry core.                       *)
(*                                                                         *)
(*   WebSocketManager          the subscriber registry and broadcast       *)
(*   BaseAgent                 send_update / send_tool_update / ...        *)
(*   DocumentAgent, ClaimsAnalysisAgent, ReportGenerationAgent             *)
(*   MasterClaimsAgent         the three units in sequence                 *)
(*   ClaimsProcessingPipeline  start_processing, stop_agent, history       *)
(*                                                                         *)
(* Everything runs on one asyncio event loop.  A coroutine runs until it   *)
(* awaits something that really suspends (a websocket send, asyncio.sleep, *)
(* an awaited collaborator call); only then may another task run.  `cur`   *)
(* is the task holding the loop, 0 when every task is suspended.           *)
(***************************************************************************)
EXTENDS Naturals, Integers, Sequences, FiniteSets, TLC

\* ------------------------------------------------------------------ bounds
MaxRuns == 2     \* start_processing calls in a behaviour
MaxStops == 2    \* stop_agent calls in a behaviour
MaxConn == 2     \* websocket connections ever opened
MaxIds == 2      \* distinct values uuid4().hex[:8] can take
MaxFaults == 1   \* collaborator calls that fail, per behaviour
HistoryCap == 1  \* the cap N the history log is specified to have
MaxInbox == 2    \* messages of a client waiting to be read by its handler
MaxLog == 3      \* records of a history log that is queried
MaxLimit == 4    \* the largest limit a get_processing_history request carries

Runs == 1..MaxRuns
Stops == (MaxRuns + 1)..(MaxRuns + MaxStops)
Tasks == Runs \cup Stops
WS == 1..MaxConn
IDS == 1..MaxIds

Units == {"master", "document", "analysis", "report"}
SubUnits == {"document", "analysis", "report"}

Min(S) == CHOOSE m \in S : \A n \in S : m <= n

\* The task of the stop_agent call of a behaviour that has one.
OneStop == {Min(Stops)}

\* ------------------------------------------------- the units' programs
\* One op per statement of an execute() body that publishes an event,
\* suspends, calls a collaborator or changes the unit's state.
\*   k   kind            a  stage / tool / check / collaborator name
\*   p   progress        s  tool status
\*   h   label of the handler an exception raised by the op jumps to
\*       ("exc": the unit's except block, "up": out of the unit)
\*   l   the op's own label     nx  label to continue at ("" = next op)
\*   alt label to continue at when a collaborator returns nothing
Op(k, a, p, s, h, l, nx) ==
    [k |-> k, a |-> a, p |-> p, s |-> s, h |-> h, l |-> l, nx |-> nx,
     alt |-> ""]

Begin == Op("begin", "", 0, "", "exc", "", "")
Upd(stage, progress) == Op("upd", stage, progress, "", "exc", "", "")
Sleep == Op("sleep", "", 0, "", "exc", "", "")
Tool(name, status) == Op("tool", name, 0, status, "exc", "", "")
Find(category) == Op("find", category, 0, "", "exc", "", "")
SCall(name) == Op("scall", name, 0, "", "exc", "", "")
Done == Op("done", "", 0, "", "exc", "", "")
Ret == Op("ret", "", 0, "", "up", "", "")
ErrUpd == Op("errupd", "error", 0, "", "up", "exc", "")
Reraise == Op("reraise", "", 0, "", "up", "", "")
ExceptBlock == <<ErrUpd, Reraise>>

\* An op inside a sub-step's own try block: its handler is the sub-step's.
In(op, handler) == [op EXCEPT !.h = handler]
Lbl(op, label) == [op EXCEPT !.l = label]
Goto(op, label) == [op EXCEPT !.nx = label]
Alt(op, label) == [op EXCEPT !.alt = label]

\* MasterClaimsAgent.execute
MasterProgram ==
    << Begin,
       Upd("initialization", 2),
       Upd("document_processing", 5),
       Op("unit", "document", 0, "", "exc", "", ""),
       Upd("claims_analysis", 35),
       Op("unit", "analysis", 0, "", "exc", "", ""),
       Upd("report_generation", 70),
       Op("unit", "report", 0, "", "exc", "", ""),
       Upd("finalization", 95),
       Done,
       Upd("completion", 100),
       Ret >> \o ExceptBlock

\* DocumentAgent.execute, with the helpers it awaits inlined in call order.
DocumentProgram ==
    << Begin,
       Upd("initialization", 5), Sleep,
       \* _initialize_services
       Tool("environment_setup", "executing"),
       SCall("getenv"),
       Tool("service_initialization", "executing"),
       SCall("services"),
       Tool("service_initialization", "completed"),
       Upd("email_connection", 10), Sleep,
       \* _fetch_latest_email
       Tool("gmail_connection", "executing"),
       Alt(SCall("read_latest_email"), "no_email"),
       Tool("gmail_connection", "completed"),
       Goto(Find("email_retrieval"), "have_email"),
       Lbl(Tool("gmail_connection", "failed"), "no_email"),
       Op("raise", "no_email", 0, "", "exc", "", ""),
       Lbl(Upd("attachment_download", 20), "have_email"), Sleep,
       \* _download_attachments
       Tool("attachment_download", "executing"),
       Alt(SCall("download_attachments"), "no_files"),
       Tool("attachment_download", "completed"),
       Goto(Find("attachment_processing"), "have_files"),
       Lbl(Tool("attachment_download", "failed"), "no_files"),
       Op("raise", "no_files", 0, "", "exc", "", ""),
       Lbl(Upd("document_preprocessing", 35), "have_files"), Sleep,
       \* _analyze_document_structure (one downloaded file)
       Tool("document_analysis", "executing"),
       Tool("document_analysis", "executing"),
       SCall("analyze_single_file"),
       Tool("document_analysis", "completed"),
       Find("document_classification"),
       Upd("email_analysis", 45), Sleep,
       \* _analyze_email_enhanced
       Tool("email_analysis", "executing"),
       SCall("analyze_email_content"),
       Tool("email_analysis", "completed"),
       Find("email_completeness"),
       Upd("document_processing", 60), Sleep,
       \* _create_embeddings
       Tool("vector_embeddings", "executing"),
       In(SCall("build_vector_store"), "embed_x"),
       In(Tool("vector_embeddings", "completed"), "embed_x"),
       In(Goto(Find("embedding_creation"), "embedded"), "embed_x"),
       Lbl(Tool("vector_embeddings", "failed"), "embed_x"),
       Op("raise", "embeddings", 0, "", "exc", "", ""),
       Lbl(Upd("data_validation", 80), "embedded"), Sleep,
       \* _validate_documents
       Tool("document_validation", "executing"),
       Tool("document_validation", "completed"),
       Find("document_validation"),
       Done,
       Upd("completion", 100),
       Ret >> \o ExceptBlock

\* One analysis sub-step: the stage update of execute(), then the helper:
\* try: tool executing, sleep, ainvoke, tool completed, [finding], return the
\* result; except: tool failed, return the fallback result.
Check(stage, progress, tool, check, finding) ==
    << Upd(stage, progress), Sleep,
       In(Tool(tool, "executing"), check),
       In(Sleep, check),
       In(Op("acall", check, 0, "", "", "", ""), check),
       In(Tool(tool, "completed"), check),
       In(Find(finding), check),
       Goto(Op("ok", check, 0, "", "exc", "", ""), check \o "_end"),
       Lbl(Tool(tool, "failed"), check),
       Op("fallback", check, 0, "", "exc", "", ""),
       Lbl(Op("nop", "", 0, "", "exc", "", ""), check \o "_end") >>

\* ClaimsAnalysisAgent.execute
AnalysisProgram ==
    << Begin,
       Upd("initialization", 5), Sleep,
       \* _initialize_agent
       Tool("environment_setup", "executing"),
       SCall("getenv"),
       Tool("vector_store_loading", "executing"),
       SCall("load_local"),
       Alt(SCall("database_url"), "no_db"),
       Tool("database_connection", "executing"),
       SCall("initialize_tools"),
       Lbl(Tool("agent_tools_setup", "executing"), "no_db"),
       SCall("initialize_agent"),
       Tool("agent_tools_setup", "completed") >>
    \o Check("document_query", 15, "extract_bordereaux_claims", "claims", "data_extraction")
    \o Check("fraud_detection", 25, "fraud_analysis", "fraud", "fraud_detection")
    \o Check("exclusion_check", 35, "validate_claim_against_exclusions", "excl", "exclusion_check")
    \o Check("amount_reconciliation", 45, "compare_bordereaux_vs_statement", "disc", "amount_reconciliation")
    \o Check("date_validation", 55, "validate_claim_dates", "dates", "date_validation")
    \o Check("duplicate_check", 65, "check_duplicate_claims_in_database", "dups", "duplicate_check")
    \o Check("compliance_validation", 75, "compliance_validation", "comp", "compliance_validation")
    \o Check("final_assessment", 85, "final_assessment", "final", "final_assessment")
    \o << Done,
          Upd("completion", 100),
          Ret >> \o ExceptBlock

\* ReportGenerationAgent.execute
ReportProgram ==
    << Begin,
       Upd("initialization", 5),
       SCall("makedirs"),
       Upd("template_preparation", 15),
       Upd("data_compilation", 25),
       SCall("compile_report_data"),
       Upd("html_generation", 45),
       SCall("render"),
       Upd("pdf_conversion", 65),
       SCall("write_pdf"),
       Upd("summary_generation", 80),
       Done,
       Upd("completion", 100),
       Ret >> \o ExceptBlock

Program(u) ==
    CASE u = "master" -> MasterProgram
      [] u = "document" -> DocumentProgram
      [] u = "analysis" -> AnalysisProgram
      [] u = "report" -> ReportProgram

\* The index of the op labelled `label` in unit u's program.
At(u, label) == CHOOSE i \in 1..Len(Program(u)) : Program(u)[i].l = label

\* ------------------------------------------------------------------ state
VARIABLES
    connections,         \* WebSocketManager.connections
    wsState,             \* each connection: "new", "open", "stalled", "closed"
    active_agents,       \* ClaimsProcessingPipeline.active_agents: id -> run
    processing_history,  \* ClaimsProcessingPipeline.processing_history
    agent,               \* the BaseAgent objects of each run, by unit
    task,                \* each coroutine's position and locals
    bc,                  \* each task's frame of WebSocketManager.broadcast
    cur,                 \* the task running on the event loop, 0 if none
    faults,              \* collaborator failures still to come
    mailbox,             \* emails the mail collaborator has to offer
    lastEvent,           \* the event of the latest broadcast call
    pubTick,             \* flips at every broadcast call
    pub,                 \* last progress published, per agent id
    terminal,            \* the run ids a terminal progress event was published for
    executing,           \* the tool executions announced and not yet closed
    stageEvents,         \* the stages named by one and by several stage completions
    inbox,               \* the messages a client has sent that its handler has not read yet
    request,             \* the message that client's handler is handling
    reply                \* the latest answer to a query of the history log

vars == << connections, wsState, active_agents, processing_history, agent,
           task, bc, cur, faults, mailbox, lastEvent, pubTick, pub,
                    terminal, executing, stageEvents,
                    inbox, request, reply >>

\* dict(): what self.results is after BaseAgent.__init__
EmptyDict == [set |-> FALSE]

\* BaseAgent.__init__; "none" stands for an object not constructed yet.
NewAgent ==
    [status |-> "initialized", current_stage |-> "", progress |-> 0,
     started |-> FALSE, errors |-> 0, results |-> EmptyDict]
NoAgent == [NewAgent EXCEPT !.status = "none"]

NoSu ==
    [on |-> FALSE, r |-> 0, u |-> "", stage |-> "", progress |-> 0,
     error |-> FALSE, changed |-> FALSE, phase |-> ""]

\* The locals of ClaimsAnalysisAgent.execute: each check's returned dict as
\* (c: its *_completed flag, v: its finding), "unset" before the check ran.
Checks == {"claims", "fraud", "excl", "disc", "dates", "dups", "comp", "final"}
Unset == [c |-> FALSE, v |-> "unset"]
NoLoc == [x \in Checks |-> Unset]

IdleTask ==
    [cpc |-> "idle", id |-> 0, frame |-> "ctl", mpc |-> 0, upc |-> 0,
     su |-> NoSu, loc |-> NoLoc, tmp |-> "none", target |-> 0]

\* A broadcast frame.  used/pos: the set iterator (the size it was created
\* for, the slot it has reached); disc: `disconnected`; res: how the call
\* ended, until the caller has taken it.  The rest records what the call
\* did: sent (the sends that succeeded), start (the registry when it began),
\* gone (what other operations removed meanwhile), older (the broadcasts
\* begun before it and still running), late (the connections a younger
\* broadcast has served before it), overtaken (it has delivered to one),
\* pending (its current send neither completes nor fails).
IdleBc ==
    [on |-> FALSE, res |-> "none", used |-> 0, pos |-> 0, disc |-> {},
     sent |-> {}, start |-> {}, gone |-> {}, older |-> {}, late |-> {},
     overtaken |-> FALSE, pending |-> FALSE]

NoEvent ==
    [type |-> "none", id |-> 0, u |-> "", stage |-> "", progress |-> 0,
     error |-> FALSE, status |-> "", by |-> 0]

\* The events of WebSocketManager.send_progress_update, send_stage_completion,
\* send_tool_execution and send_analysis_result, and the controller's texts.
ProgressEvent(id, u, stage, progress, error) ==
    [NoEvent EXCEPT !.type = "agent_progress", !.id = id, !.u = u,
                    !.stage = stage, !.progress = progress, !.error = error]
StageCompletionEvent(id, u, stage, success) ==
    [NoEvent EXCEPT !.type = "stage_completion", !.id = id, !.u = u,
                    !.stage = stage,
                    !.status = IF success THEN "success" ELSE "failure"]
ToolEvent(id, u, name, status) ==
    [NoEvent EXCEPT !.type = "tool_execution", !.id = id, !.u = u,
                    !.stage = name, !.status = status]
AnalysisResultEvent(id, u, category) ==
    [NoEvent EXCEPT !.type = "analysis_result", !.id = id, !.u = u,
                    !.stage = category]
TextEvent(id, what) ==
    [NoEvent EXCEPT !.type = "text", !.id = id, !.stage = what]

IsRun(t) == t \in Runs
CurFrame(t) == task[t].frame
PC(t) == IF task[t].frame = "master" THEN task[t].mpc ELSE task[t].upc
InUnit(t) == IsRun(t) /\ task[t].frame \in Units
CurOp(t) == Program(task[t].frame)[PC(t)]
\* The task may take a step: it holds the loop, or nobody does.
MayRun(t) == cur \in {0, t}
\* Not inside send_update nor broadcast, and no broadcast result pending.
AtOp(t) == ~task[t].su.on /\ ~bc[t].on /\ bc[t].res = "none"

\* --------------------------------------------------- WebSocketManager
\* websocket.send(message): fails once the connection is closed, and does
\* not return while the peer has stopped reading.
SendOk(w) == wsState[w] = "open"
SendFails(w) == wsState[w] = "closed"

\* One `await websocket.send(message)` of task t's broadcast, to w: the frame
\* after it.
BcSendFrame(f, w) ==
    [f EXCEPT !.pos = w,
              !.sent = IF SendOk(w) THEN @ \cup {w} ELSE @,
              !.disc = IF SendFails(w) THEN @ \cup {w} ELSE @,
              !.pending = ~SendOk(w) /\ ~SendFails(w),
              !.overtaken = @ \/ (SendOk(w) /\ w \in f.late)]

\* The frames of all tasks after t, whose frame becomes f, sent to w: a
\* broadcast that started before t's and has not reached w yet will deliver
\* its event to w after t's.
BcAfterSend(t, f, w) ==
    [x \in Tasks |->
        IF x = t THEN BcSendFrame(f, w)
        ELSE IF bc[x].on /\ x \in f.older /\ SendOk(w)
                /\ w \notin (bc[x].sent \cup bc[x].disc)
             THEN [bc[x] EXCEPT !.late = @ \cup {w}]
             ELSE bc[x]]

\* The frames after task t's broadcast has ended with `res`, having removed
\* the connections `removed` from the registry.
BcAfterEnd(t, res, removed) ==
    [x \in Tasks |->
        IF x = t THEN [bc[t] EXCEPT !.on = FALSE, !.res = res]
        ELSE IF bc[x].on
             THEN [bc[x] EXCEPT !.older = @ \ {t}, !.gone = @ \cup removed]
             ELSE bc[x]]

\* Connections leave the registry by another operation than a broadcast.
BcAfterRemoval(removed) ==
    [x \in Tasks |->
        IF bc[x].on THEN [bc[x] EXCEPT !.gone = @ \cup removed] ELSE bc[x]]

PubKey(ev) == <<ev.id, ev.u>>

\* The master's progress event that ends a run: "completion" at 100, sent by
\* MasterClaimsAgent.execute line 38, or "error", sent by line 44.
IsTerminal(ev) ==
    /\ ev.type = "agent_progress"
    /\ ev.u = "master"
    /\ ev.error \/ (ev.stage = "completion" /\ ev.progress = 100)

\* WebSocketManager.broadcast, from the call to its first suspension: with
\* no connection it returns at once; otherwise it creates the iterator over
\* self.connections, takes the first connection and awaits the send to it.
Broadcast(t, ev) ==
    /\ lastEvent' = [ev EXCEPT !.by = t]
    /\ UNCHANGED << inbox, request, reply >>
    /\ pubTick' = 1 - pubTick
    /\ terminal' = IF IsTerminal(ev) THEN terminal \cup {ev.id} ELSE terminal
    /\ executing' = IF ev.type # "tool_execution" THEN executing
                    ELSE IF ev.status = "executing"
                    THEN executing \cup {<<t, ev.u, ev.stage>>}
                    ELSE executing \ {<<t, ev.u, ev.stage>>}
    /\ stageEvents' =
           IF ev.type # "stage_completion" THEN stageEvents
           ELSE LET k == <<ev.id, ev.u, ev.stage>>
                IN [once |-> stageEvents.once \cup {k},
                    twice |-> IF k \in stageEvents.once
                              THEN stageEvents.twice \cup {k}
                              ELSE stageEvents.twice]
    /\ pub' = IF ev.type = "agent_progress"
              THEN [pub EXCEPT ![PubKey(ev)] = ev.progress]
              ELSE pub
    /\ IF connections = {}
       THEN /\ bc' = [bc EXCEPT ![t] = [IdleBc EXCEPT !.res = "ok"]]
            /\ cur' = t
       ELSE LET w == Min(connections)
                f == [IdleBc EXCEPT !.on = TRUE,
                                    !.used = Cardinality(connections),
                                    !.start = connections,
                                    !.older = {x \in Tasks \ {t} : bc[x].on}]
            IN /\ bc' = BcAfterSend(t, f, w)
               /\ cur' = 0

NoBroadcast == UNCHANGED << lastEvent, pubTick, pub,
                    terminal, executing, stageEvents,
                    inbox, request, reply >>

\* A broadcast that forgets the connections its sends failed on.
KeepDisconnected(f) == connections

\* The registry after the loop that ends broadcast:
\* for websocket in disconnected: self.connections.discard(websocket)
DiscardDisconnected(f) == connections \ f.disc

\* WebSocketManager.broadcast resumed after a send: the iterator's next()
\* raises RuntimeError when the set's size is no longer the one it was
\* created for, ends the loop when no slot is left (the disconnected ones are
\* then discarded and the call returns), and else yields the next connection,
\* whose send is awaited.
BroadcastStep(t) ==
    /\ cur = 0
    /\ bc[t].on
    /\ ~bc[t].pending
    /\ UNCHANGED << wsState, active_agents, processing_history, agent, task,
                    faults, mailbox, lastEvent, pubTick, pub,
                    terminal, executing, stageEvents,
                    inbox, request, reply >>
    /\ LET f == bc[t]
           rest == {w \in connections : w > f.pos}
       IN IF Cardinality(connections) # f.used
          THEN /\ bc' = BcAfterEnd(t, "raise", {})
               /\ connections' = connections
               /\ cur' = t
          ELSE IF rest = {}
          THEN /\ bc' = BcAfterEnd(t, "ok", f.disc \cap connections)
               /\ connections' = DiscardDisconnected(f)
               /\ cur' = t
          ELSE /\ bc' = BcAfterSend(t, f, Min(rest))
               /\ connections' = connections
               /\ cur' = 0

\* WebSocketManager.register, called when a client connects.  Connections
\* are numbered in the order they are opened.
Register(w) ==
    /\ cur = 0
    /\ wsState[w] = "new"
    /\ \A v \in WS : v < w => wsState[v] # "new"
    /\ connections' = connections \cup {w}
    /\ wsState' = [wsState EXCEPT ![w] = "open"]
    /\ UNCHANGED << active_agents, processing_history, agent, task, bc, cur,
                    faults, mailbox, lastEvent, pubTick, pub,
                    terminal, executing, stageEvents,
                    inbox, request, reply >>

\* The client goes away: every later send to it raises ConnectionClosed.
ConnectionClosed(w) ==
    /\ cur = 0
    /\ wsState[w] = "open"
    /\ wsState' = [wsState EXCEPT ![w] = "closed"]
    /\ UNCHANGED << connections, active_agents, processing_history, agent,
                    task, bc, cur, faults, mailbox, lastEvent, pubTick, pub,
                    terminal, executing, stageEvents,
                    inbox, request, reply >>

\* The client stops reading: a send to it from now on neither completes nor
\* fails.
Stall(w) ==
    /\ cur = 0
    /\ wsState[w] = "open"
    /\ wsState' = [wsState EXCEPT ![w] = "stalled"]
    /\ UNCHANGED << connections, active_agents, processing_history, agent,
                    task, bc, cur, faults, mailbox, lastEvent, pubTick, pub,
                    terminal, executing, stageEvents,
                    inbox, request, reply >>

\* WebSocketManager.unregister, from websocket_handler's finally, once the
\* connection's message loop has ended.
Unregister(w) ==
    /\ cur = 0
    /\ wsState[w] = "closed"
    /\ w \in connections
    /\ connections' = connections \ {w}
    /\ bc' = BcAfterRemoval({w})
    /\ UNCHANGED << wsState, active_agents, processing_history, agent, task, cur,
                    faults, mailbox, lastEvent, pubTick, pub,
                    terminal, executing, stageEvents,
                    inbox, request, reply >>

\* WebSocketManager.send_to_client to a connection that has closed: the
\* handler's reply raises ConnectionClosed and the connection is discarded.
SendToClient(w) ==
    /\ cur = 0
    /\ wsState[w] = "closed"
    /\ w \in connections
    /\ connections' = connections \ {w}
    /\ bc' = BcAfterRemoval({w})
    /\ UNCHANGED << wsState, active_agents, processing_history, agent, task,
                    cur, faults, mailbox, lastEvent, pubTick, pub,
                    terminal, executing, stageEvents,
                    inbox, request, reply >>

\* ------------------------------------------------- analysis results
\* analysis_results.get("fraud_analysis", {}).get("risk_level", "UNKNOWN")
RiskLevel(res) == IF res.set THEN res.fraud.v ELSE "UNKNOWN"
\* results.get(<check>, {}).get(<finding>, False)
Found(res, check) == IF res.set THEN res[check].v = "true" ELSE FALSE
\* results.get(<check>, {}).get(<check>_completed, False)
Completed(res, check) == IF res.set THEN res[check].c ELSE FALSE

\* ClaimsAnalysisAgent._determine_recommendation, of the dict it reads.
DetermineRecommendation(res) ==
    LET fraud_risk == RiskLevel(res)
        exclusions_violated == Found(res, "excl")
        discrepancies == Found(res, "disc")
        duplicates == Found(res, "dups")
        date_failures == Found(res, "dates")
        compliance_issues == Found(res, "comp")
    IN IF exclusions_violated \/ duplicates \/ fraud_risk = "HIGH"
       THEN "REJECT"
       ELSE IF discrepancies \/ date_failures \/ compliance_issues
               \/ fraud_risk = "MEDIUM"
       THEN "REVIEW"
       ELSE IF fraud_risk = "LOW"
               /\ ~(discrepancies \/ date_failures \/ compliance_issues)
       THEN "APPROVE"
       ELSE "REVIEW"

\* What a check's collaborator call can return: _extract_risk_level gives
\* LOW, MEDIUM or HIGH; the keyword tests give a boolean.
Values(check) ==
    CASE check = "fraud" -> {"LOW", "MEDIUM", "HIGH"}
      [] check \in {"excl", "disc", "dates", "dups", "comp"} -> {"true", "false"}
      [] OTHER -> {"ok"}

\* The finding of the dict a check returns from its except block.
Fallback(check) ==
    CASE check = "fraud" -> "UNKNOWN"
      [] check = "excl" -> "false"
      [] check = "disc" -> "true"
      [] check = "dates" -> "true"
      [] check = "dups" -> "false"
      [] check = "comp" -> "true"
      [] OTHER -> "failed"

\* An execute that determines the recommendation from the dict it is
\* building instead of the one self.results still holds.
AnalysisResultsFresh(loc, current) ==
    LET fresh == [set |-> TRUE, claims |-> loc["claims"],
                  fraud |-> loc["fraud"], excl |-> loc["excl"],
                  disc |-> loc["disc"], dates |-> loc["dates"],
                  dups |-> loc["dups"], comp |-> loc["comp"],
                  final |-> loc["final"], overall_recommendation |-> "REVIEW"]
    IN [fresh EXCEPT !.overall_recommendation = DetermineRecommendation(fresh)]

\* The dict ClaimsAnalysisAgent.execute assigns to self.results.  Python
\* evaluates the dict display, the call of _determine_recommendation
\* included, before it assigns: `current` is self.results as that call
\* reads it.
AnalysisResults(loc, current) ==
    [set |-> TRUE, claims |-> loc["claims"], fraud |-> loc["fraud"],
     excl |-> loc["excl"], disc |-> loc["disc"], dates |-> loc["dates"],
     dups |-> loc["dups"], comp |-> loc["comp"], final |-> loc["final"],
     overall_recommendation |-> DetermineRecommendation(current)]

\* An _identify_critical_issues that looks at the reconciliation before the
\* duplicates.
IdentifyCriticalIssuesSwapped(res) ==
    (IF RiskLevel(res) = "HIGH" THEN <<"HIGH FRAUD RISK">> ELSE <<>>)
    \o (IF Found(res, "excl") THEN <<"TREATY EXCLUSION VIOLATIONS">> ELSE <<>>)
    \o (IF Found(res, "disc") THEN <<"AMOUNT DISCREPANCIES">> ELSE <<>>)
    \o (IF Found(res, "dups") THEN <<"DUPLICATE CLAIMS DETECTED">> ELSE <<>>)

\* MasterClaimsAgent._identify_critical_issues
IdentifyCriticalIssues(res) ==
    (IF RiskLevel(res) = "HIGH" THEN <<"HIGH FRAUD RISK">> ELSE <<>>)
    \o (IF Found(res, "excl") THEN <<"TREATY EXCLUSION VIOLATIONS">> ELSE <<>>)
    \o (IF Found(res, "dups") THEN <<"DUPLICATE CLAIMS DETECTED">> ELSE <<>>)
    \o (IF Found(res, "disc") THEN <<"AMOUNT DISCREPANCIES">> ELSE <<>>)

\* MasterClaimsAgent._finalize_results, of the analysis unit's results.
FinalizeResults(res) ==
    [set |-> TRUE,
     overall_recommendation |->
         IF res.set THEN res.overall_recommendation ELSE "REVIEW",
     fraud_risk_level |-> RiskLevel(res),
     critical_issues |-> IdentifyCriticalIssues(res)]

\* --------------------------------------------------------- control flow
NextPc(u, i) ==
    IF Program(u)[i].nx # "" THEN At(u, Program(u)[i].nx) ELSE i + 1

SetPc(tr, i) ==
    IF tr.frame = "master" THEN [tr EXCEPT !.mpc = i] ELSE [tr EXCEPT !.upc = i]

\* The task after its current op has completed.
Advanced(tr) ==
    SetPc(tr, NextPc(tr.frame, IF tr.frame = "master" THEN tr.mpc ELSE tr.upc))

\* A master that swallows a sub-unit's exception and goes on with the next
\* statement.
Swallowed(tr) ==
    IF tr.frame = "master"
    THEN [tr EXCEPT !.frame = "ctl", !.cpc = "except", !.mpc = 0, !.su = NoSu]
    ELSE Advanced([tr EXCEPT !.frame = "master", !.upc = 0, !.su = NoSu])

\* The task after an exception has left its frame: a sub-unit's exception
\* is wrapped by MasterClaimsAgent._run_* and lands in execute's except
\* block; the master's lands in start_processing's.
Propagated(tr) ==
    IF tr.frame = "master"
    THEN [tr EXCEPT !.frame = "ctl", !.cpc = "except", !.mpc = 0, !.su = NoSu]
    ELSE [tr EXCEPT !.frame = "master", !.upc = 0, !.su = NoSu,
                    !.mpc = At("master", Program("master")[tr.mpc].h)]

\* The task after its current op has raised.
Thrown(tr) ==
    LET op == Program(tr.frame)[IF tr.frame = "master" THEN tr.mpc ELSE tr.upc]
    IN IF op.h = "up"
       THEN Propagated(tr)
       ELSE SetPc([tr EXCEPT !.su = NoSu, !.tmp = "none"], At(tr.frame, op.h))

\* A step of task t that publishes nothing and keeps the loop.
Local(t, tr) ==
    /\ task' = [task EXCEPT ![t] = tr]
    /\ bc' = [bc EXCEPT ![t] = IdleBc]
    /\ cur' = t
    /\ UNCHANGED << lastEvent, pubTick, pub,
                    terminal, executing, stageEvents,
                    inbox, request, reply >>

\* A step of task t that publishes nothing and ends in a suspension (or
\* ends the task).
Yield(t, tr) ==
    /\ task' = [task EXCEPT ![t] = tr]
    /\ bc' = [bc EXCEPT ![t] = IdleBc]
    /\ cur' = 0
    /\ UNCHANGED << lastEvent, pubTick, pub,
                    terminal, executing, stageEvents,
                    inbox, request, reply >>

\* The agent_id of run r's unit u: the run id, or f"{agent_id}_{u}".
AgentId(r) == task[r].id

\* ------------------------------------------------- BaseAgent.send_update
\* A send_update that takes every call for a change of stage.
StageChangedAlways(a, stage) == TRUE

\* if self.current_stage != stage
StageChanged(a, stage) == a.current_stage # stage

\* Lines 41-50 of send_update, called by task t on run r's unit u, whose
\* record is `a` (the caller may just have changed it): an error marks the
\* unit FAILED; a change of stage publishes the completion of the stage that
\* was current, when a stage had been started.
SendUpdate(t, r, u, a, stage, progress, error, tr) ==
    LET a1 == IF error
              THEN [a EXCEPT !.status = "failed", !.errors = @ + 1]
              ELSE a
        changed == StageChanged(a, stage)
    IN /\ agent' = [agent EXCEPT ![r][u] = a1]
       /\ task' = [task EXCEPT ![t] =
              [tr EXCEPT !.su = [on |-> TRUE, r |-> r, u |-> u,
                                 stage |-> stage, progress |-> progress,
                                 error |-> error, changed |-> changed,
                                 phase |-> "stage"]]]
       /\ IF changed /\ a.started
          THEN Broadcast(t, StageCompletionEvent(AgentId(r), u,
                                                 a.current_stage, ~error))
          ELSE /\ bc' = [bc EXCEPT ![t] = [IdleBc EXCEPT !.res = "ok"]]
               /\ cur' = t
               /\ UNCHANGED << lastEvent, pubTick, pub,
                    terminal, executing, stageEvents,
                    inbox, request, reply >>

\* The task after the send_update it is in has raised (a broadcast did).
SuThrown(t) ==
    IF IsRun(t) THEN Thrown(task[t])
    ELSE [task[t] EXCEPT !.cpc = "raised", !.su = NoSu]

\* The task after the send_update it is in has returned.
SuReturned(t) ==
    IF IsRun(t) THEN Advanced([task[t] EXCEPT !.su = NoSu])
    ELSE [task[t] EXCEPT !.cpc = "del", !.su = NoSu]

\* Lines 51-75 of send_update, once the stage completion is out: the stage
\* clock restarts if the stage changed, the stage and the progress are
\* recorded and the progress event is published.
SendUpdateProgress(t) ==
    /\ MayRun(t)
    /\ task[t].su.on /\ task[t].su.phase = "stage"
    /\ ~bc[t].on /\ bc[t].res # "none"
    /\ UNCHANGED << connections, wsState, active_agents, processing_history,
                    faults, mailbox >>
    /\ LET su == task[t].su
       IN IF bc[t].res = "raise"
          THEN /\ agent' = agent
               /\ IF IsRun(t) THEN Local(t, SuThrown(t))
                              ELSE Yield(t, SuThrown(t))
          ELSE /\ agent' = [agent EXCEPT ![su.r][su.u] =
                     [@ EXCEPT !.started = IF su.changed THEN TRUE ELSE @,
                               !.current_stage = su.stage,
                               !.progress = su.progress]]
               /\ task' = [task EXCEPT ![t].su.phase = "progress"]
               /\ Broadcast(t, ProgressEvent(AgentId(su.r), su.u, su.stage,
                                             su.progress, su.error))

\* send_update returns (or raises what its last broadcast raised).
SendUpdateReturn(t) ==
    /\ MayRun(t)
    /\ task[t].su.on /\ task[t].su.phase = "progress"
    /\ ~bc[t].on /\ bc[t].res # "none"
    /\ UNCHANGED << connections, wsState, active_agents, processing_history,
                    agent, faults, mailbox >>
    /\ IF bc[t].res = "raise"
       THEN IF IsRun(t) THEN Local(t, SuThrown(t)) ELSE Yield(t, SuThrown(t))
       ELSE Local(t, SuReturned(t))

\* ----------------------------------------------- the steps of a unit
\* self.status = AgentStatus.PROCESSING
OpBegin(t) ==
    /\ InUnit(t) /\ MayRun(t) /\ AtOp(t)
    /\ CurOp(t).k = "begin"
    /\ agent' = [agent EXCEPT ![t][CurFrame(t)].status = "processing"]
    /\ Local(t, Advanced(task[t]))
    /\ UNCHANGED << connections, wsState, active_agents, processing_history,
                    faults, mailbox >>

\* await self.send_update(stage, message, progress), and in the except
\* block await self.send_update("error", message, self.progress, str(e)).
OpUpdate(t) ==
    /\ InUnit(t) /\ MayRun(t) /\ AtOp(t)
    /\ CurOp(t).k \in {"upd", "errupd"}
    /\ LET u == CurFrame(t)
           error == CurOp(t).k = "errupd"
       IN SendUpdate(t, t, u, agent[t][u], CurOp(t).a,
                     IF error THEN agent[t][u].progress ELSE CurOp(t).p,
                     error, task[t])
    /\ UNCHANGED << connections, wsState, active_agents, processing_history,
                    faults, mailbox >>

\* await asyncio.sleep(...)
OpSleep(t) ==
    /\ InUnit(t) /\ MayRun(t) /\ AtOp(t)
    /\ CurOp(t).k = "sleep"
    /\ Yield(t, Advanced(task[t]))
    /\ UNCHANGED << connections, wsState, active_agents, processing_history,
                    agent, faults, mailbox >>

\* await self.send_tool_update(...) and await self.send_analysis_update(...)
OpPublish(t) ==
    /\ InUnit(t) /\ MayRun(t) /\ AtOp(t)
    /\ CurOp(t).k \in {"tool", "find"}
    /\ Broadcast(t, IF CurOp(t).k = "tool"
                    THEN ToolEvent(AgentId(t), CurFrame(t), CurOp(t).a,
                                   CurOp(t).s)
                    ELSE AnalysisResultEvent(AgentId(t), CurFrame(t),
                                             CurOp(t).a))
    /\ UNCHANGED << connections, wsState, active_agents, processing_history,
                    agent, task, faults, mailbox >>

\* ... and the broadcast it awaited has returned or raised.
OpPublished(t) ==
    /\ InUnit(t) /\ MayRun(t)
    /\ ~task[t].su.on /\ ~bc[t].on /\ bc[t].res # "none"
    /\ Local(t, IF bc[t].res = "raise" THEN Thrown(task[t])
                ELSE Advanced(task[t]))
    /\ UNCHANGED << connections, wsState, active_agents, processing_history,
                    agent, faults, mailbox >>

\* What a synchronous collaborator call can do: return, return nothing
\* (no email in the mailbox, no attachment, no DATABASE_URL) or raise.
Outcomes(op) ==
    LET empty == op.a = "read_latest_email" /\ mailbox = 0
    IN (IF empty THEN {} ELSE {"ok"})
       \cup (IF empty \/ op.a = "database_url"
                \/ (op.a = "download_attachments" /\ faults > 0)
             THEN {"none"} ELSE {})
       \cup (IF op.a # "database_url" /\ faults > 0
             THEN {"raise"} ELSE {})

\* A synchronous collaborator call: no suspension.
OpCall(t) ==
    /\ InUnit(t) /\ MayRun(t) /\ AtOp(t)
    /\ CurOp(t).k = "scall"
    /\ \E o \in Outcomes(CurOp(t)) :
        /\ Local(t, CASE o = "ok" -> Advanced(task[t])
                      [] o = "none" ->
                           SetPc(task[t], At(CurFrame(t), CurOp(t).alt))
                      [] OTHER -> Thrown(task[t]))
        /\ faults' = IF o = "raise"
                        \/ (o = "none" /\ CurOp(t).a = "download_attachments")
                     THEN faults - 1 ELSE faults
    /\ UNCHANGED << connections, wsState, active_agents, processing_history,
                    agent, mailbox >>

\* await self.agent.ainvoke(...) / self.claims_tool.func(...): the call
\* suspends, then returns a finding or raises.
OpACall(t) ==
    /\ InUnit(t) /\ MayRun(t) /\ AtOp(t)
    /\ CurOp(t).k = "acall"
    /\ \/ \E v \in Values(CurOp(t).a) :
            /\ Yield(t, Advanced([task[t] EXCEPT !.tmp = v]))
            /\ faults' = faults
       \/ /\ faults > 0
          /\ Yield(t, Thrown(task[t]))
          /\ faults' = faults - 1
    /\ UNCHANGED << connections, wsState, active_agents, processing_history,
                    agent, mailbox >>

\* A sub-step returns its result dict to execute(): the one of its try
\* block, or the fallback of its except block.
OpCheckReturn(t) ==
    /\ InUnit(t) /\ MayRun(t) /\ AtOp(t)
    /\ CurOp(t).k \in {"ok", "fallback", "nop"}
    /\ LET c == CurOp(t).a
           tr == CASE CurOp(t).k = "ok" ->
                        [task[t] EXCEPT !.loc[c] = [c |-> TRUE, v |-> task[t].tmp],
                                        !.tmp = "none"]
                   [] CurOp(t).k = "fallback" ->
                        [task[t] EXCEPT !.loc[c] = [c |-> FALSE, v |-> Fallback(c)]]
                   [] OTHER -> task[t]
       IN Local(t, Advanced(tr))
    /\ UNCHANGED << connections, wsState, active_agents, processing_history,
                    agent, faults, mailbox >>

\* raise Exception("No emails found") and the like, and the bare `raise`
\* that ends an except block.
OpRaise(t) ==
    /\ InUnit(t) /\ MayRun(t) /\ AtOp(t)
    /\ CurOp(t).k \in {"raise", "reraise"}
    /\ Local(t, Thrown(task[t]))
    /\ UNCHANGED << connections, wsState, active_agents, processing_history,
                    agent, faults, mailbox >>

\* The unit is done: self.status = COMPLETED and self.results = ...  The
\* analysis unit builds its dict while self.results is still the old one;
\* the master finalizes what the analysis unit returned.
OpDone(t) ==
    /\ InUnit(t) /\ MayRun(t) /\ AtOp(t)
    /\ CurOp(t).k = "done"
    /\ LET u == CurFrame(t)
           results ==
               CASE u = "analysis" ->
                        AnalysisResults(task[t].loc, agent[t][u].results)
                 [] u = "master" ->
                        FinalizeResults(agent[t]["analysis"].results)
                 [] OTHER -> [set |-> TRUE]
       IN agent' = [agent EXCEPT ![t][u].status = "completed",
                                 ![t][u].results = results]
    /\ Local(t, Advanced(task[t]))
    /\ UNCHANGED << connections, wsState, active_agents, processing_history,
                    faults, mailbox >>

\* return self.results: a sub-unit returns to the master, the master to
\* start_processing.
OpReturn(t) ==
    /\ InUnit(t) /\ MayRun(t) /\ AtOp(t)
    /\ CurOp(t).k = "ret"
    /\ Local(t, IF CurFrame(t) = "master"
                THEN [task[t] EXCEPT !.frame = "ctl", !.cpc = "returned",
                                     !.mpc = 0]
                ELSE Advanced([task[t] EXCEPT !.frame = "master", !.upc = 0]))
    /\ UNCHANGED << connections, wsState, active_agents, processing_history,
                    agent, faults, mailbox >>

\* MasterClaimsAgent._run_*: construct the sub-unit and await its execute().
OpUnit(t) ==
    /\ InUnit(t) /\ MayRun(t) /\ AtOp(t)
    /\ CurOp(t).k = "unit"
    /\ agent' = [agent EXCEPT ![t][CurOp(t).a] = NewAgent]
    /\ Local(t, [task[t] EXCEPT !.frame = CurOp(t).a, !.upc = 1])
    /\ UNCHANGED << connections, wsState, active_agents, processing_history,
                    faults, mailbox >>

\* ------------------------------------------ ClaimsProcessingPipeline
\* A processing_record.  A FAILED record has no recommendation and no
\* critical_issues_count key ("absent", -1) and carries the error string;
\* `by` is the start_processing call that appended it.
CompletedRecord(r, results) ==
    [agent_id |-> task[r].id, status |-> "COMPLETED",
     recommendation |-> IF results.set THEN results.overall_recommendation
                        ELSE "absent",
     critical_issues_count |-> IF results.set THEN Len(results.critical_issues)
                               ELSE 0,
     error |-> FALSE, by |-> r]
FailedRecord(r) ==
    [agent_id |-> task[r].id, status |-> "FAILED", recommendation |-> "absent",
     critical_issues_count |-> -1, error |-> TRUE, by |-> r]

\* start_processing, lines 17-29: the run id is drawn, the master is
\* created and registered under it, the start text is broadcast.  Calls and
\* id values are numbered in the order they first occur.
StartProcessing(r, id) ==
    /\ cur = 0
    /\ task[r].cpc = "idle"
    /\ \A q \in Runs : q < r => task[q].cpc # "idle"
    /\ \A j \in IDS : j < id => \E q \in Runs : task[q].id = j
    /\ agent' = [agent EXCEPT ![r] =
           [u \in Units |-> IF u = "master" THEN NewAgent ELSE NoAgent]]
    /\ active_agents' = [active_agents EXCEPT ![id] = r]
    /\ task' = [task EXCEPT ![r] =
           [IdleTask EXCEPT !.cpc = "starting", !.id = id]]
    /\ Broadcast(r, TextEvent(id, "starting"))
    /\ UNCHANGED << connections, wsState, processing_history, faults, mailbox >>

\* start_processing, line 31: the start text is out (or its broadcast
\* raised, which the except block takes); master_agent.execute() is entered.
StartExecute(r) ==
    /\ IsRun(r) /\ MayRun(r)
    /\ task[r].cpc = "starting"
    /\ ~bc[r].on /\ bc[r].res # "none"
    /\ Local(r, IF bc[r].res = "raise"
                THEN [task[r] EXCEPT !.cpc = "except"]
                ELSE [task[r] EXCEPT !.cpc = "executing", !.frame = "master",
                                     !.mpc = 1])
    /\ UNCHANGED << connections, wsState, active_agents, processing_history,
                    agent, faults, mailbox >>

\* start_processing, lines 33-61: execute() returned; the COMPLETED record
\* is appended, the run leaves the active table, the call returns.
RecordSuccess(r) ==
    /\ IsRun(r) /\ MayRun(r)
    /\ task[r].cpc = "returned"
    /\ processing_history' =
           Append(processing_history,
                  CompletedRecord(r, agent[r]["master"].results))
    /\ active_agents' = [active_agents EXCEPT ![task[r].id] = 0]
    /\ Yield(r, [task[r] EXCEPT !.cpc = "done_ok"])
    /\ UNCHANGED << connections, wsState, agent, faults, mailbox >>

\* start_processing, lines 63-82: the except block removes the run from the
\* active table, appends the FAILED record and broadcasts the failure text.
RecordFailure(r) ==
    /\ IsRun(r) /\ MayRun(r)
    /\ task[r].cpc = "except"
    /\ ~bc[r].on
    /\ active_agents' = [active_agents EXCEPT ![task[r].id] = 0]
    /\ processing_history' = Append(processing_history, FailedRecord(r))
    /\ task' = [task EXCEPT ![r].cpc = "failing"]
    /\ Broadcast(r, TextEvent(task[r].id, "failed"))
    /\ UNCHANGED << connections, wsState, agent, faults, mailbox >>

\* start_processing, lines 84-89: the failure result is returned, unless the
\* broadcast of line 82 raised: nothing catches that.
ReturnFailure(r) ==
    /\ IsRun(r) /\ MayRun(r)
    /\ task[r].cpc = "failing"
    /\ ~bc[r].on /\ bc[r].res # "none"
    /\ Yield(r, [task[r] EXCEPT !.cpc = IF bc[r].res = "raise" THEN "raised"
                                        ELSE "done_fail"])
    /\ UNCHANGED << connections, wsState, active_agents, processing_history,
                    agent, faults, mailbox >>

\* stop_agent, lines 96-98 and 101, with MasterClaimsAgent.stop_processing:
\* an active run's master is set to PAUSED and publishes the stopping
\* update with the progress it has now; an unknown id returns False.
StopAgent(s, id) ==
    /\ cur = 0
    /\ s \in Stops
    /\ task[s].cpc = "idle"
    /\ UNCHANGED << connections, wsState, active_agents, processing_history,
                    faults, mailbox >>
    /\ IF active_agents[id] # 0
       THEN LET r == active_agents[id]
                a == [agent[r]["master"] EXCEPT !.status = "paused"]
            IN SendUpdate(s, r, "master", a, "stopping", a.progress, FALSE,
                          [IdleTask EXCEPT !.cpc = "stopping", !.id = id,
                                           !.target = r])
       ELSE /\ agent' = agent
            /\ Yield(s, [IdleTask EXCEPT !.cpc = "false", !.id = id])

\* stop_agent, lines 99-100: del self.active_agents[agent_id] raises
\* KeyError when the entry has gone meanwhile; else the call returns True.
StopDelete(s) ==
    /\ s \in Stops /\ MayRun(s)
    /\ task[s].cpc = "del"
    /\ IF active_agents[task[s].id] = 0
       THEN /\ active_agents' = active_agents
            /\ Yield(s, [task[s] EXCEPT !.cpc = "raised"])
       ELSE /\ active_agents' = [active_agents EXCEPT ![task[s].id] = 0]
            /\ Yield(s, [task[s] EXCEPT !.cpc = "true"])
    /\ UNCHANGED << connections, wsState, processing_history, agent, faults,
                    mailbox >>

\* get_active_agents()
GetActiveAgents == {id \in IDS : active_agents[id] # 0}
\* get_agent_status(id) returns None
StatusIsNone(id) == active_agents[id] = 0

\* ------------------------------------------------- the history queries
\* None, where a record is expected.
NoRecord == [status |-> "none"]

\* seq[start:] of a Python list: a negative start counts from the end and
\* is clipped at the first element, a start beyond the end gives [].
Max(a, b) == IF a >= b THEN a ELSE b
SliceFrom(seq, start) ==
    LET n == Len(seq)
        first == IF start < 0 THEN Max(n + start, 0)
                 ELSE IF start > n THEN n ELSE start
    IN SubSeq(seq, first + 1, n)

\* get_processing_history(limit): self.processing_history[-limit:]
GetProcessingHistory(limit) == SliceFrom(processing_history, 0 - limit)

\* record.get("recommendation", "UNKNOWN")
RecommendationOf(record) ==
    IF record.recommendation = "absent" THEN "UNKNOWN"
    ELSE record.recommendation

\* A get_pipeline_stats that counts the recommendations of the records
\* that have one only.
GetPipelineStatsSkipping ==
    LET h == processing_history
        total_processed == Len(h)
        successful == Cardinality({i \in DOMAIN h : h[i].status = "COMPLETED"})
        failed == Cardinality({i \in DOMAIN h : h[i].status = "FAILED"})
        have == {i \in DOMAIN h : h[i].recommendation # "absent"}
    IN [total_processed |-> total_processed,
        successful |-> successful,
        failed |-> failed,
        success_rate |-> IF total_processed > 0
                         THEN (successful * 100) \div total_processed ELSE 0,
        active_agents |-> Cardinality({id \in IDS : active_agents[id] # 0}),
        recommendations_breakdown |->
            [k \in {h[i].recommendation : i \in have} |->
                Cardinality({i \in have : h[i].recommendation = k})],
        last_processing |-> IF h # << >> THEN h[Len(h)] ELSE NoRecord]

\* get_pipeline_stats(); the success rate is rounded down to a whole
\* percentage, and last_processing is None for an empty log.
GetPipelineStats ==
    LET h == processing_history
        total_processed == Len(h)
        successful == Cardinality({i \in DOMAIN h : h[i].status = "COMPLETED"})
        failed == Cardinality({i \in DOMAIN h : h[i].status = "FAILED"})
    IN [total_processed |-> total_processed,
        successful |-> successful,
        failed |-> failed,
        success_rate |-> IF total_processed > 0
                         THEN (successful * 100) \div total_processed ELSE 0,
        active_agents |-> Cardinality({id \in IDS : active_agents[id] # 0}),
        recommendations_breakdown |->
            [k \in {RecommendationOf(h[i]) : i \in DOMAIN h} |->
                Cardinality({i \in DOMAIN h : RecommendationOf(h[i]) = k})],
        last_processing |-> IF h # << >> THEN h[Len(h)] ELSE NoRecord]

\* The answers handle_client_message sends for the two queries.
NoReply == [type |-> "none", limit |-> 0]
HistoryReply(limit) ==
    [type |-> "processing_history", limit |-> limit,
     history |-> GetProcessingHistory(limit)]
StatsReply == [type |-> "pipeline_stats", limit |-> 0, stats |-> GetPipelineStats]

\* handle_client_message for get_processing_history and get_pipeline_stats:
\* synchronous calls; the answer goes to the client.
HandleGetProcessingHistory(limit) ==
    /\ cur = 0
    /\ reply' = HistoryReply(limit)
    /\ UNCHANGED << connections, wsState, active_agents, processing_history,
                    agent, task, bc, cur, faults, mailbox, lastEvent, pubTick,
                    pub, terminal, executing, stageEvents, inbox, request >>
HandleGetPipelineStats ==
    /\ cur = 0
    /\ reply' = StatsReply
    /\ UNCHANGED << connections, wsState, active_agents, processing_history,
                    agent, task, bc, cur, faults, mailbox, lastEvent, pubTick,
                    pub, terminal, executing, stageEvents, inbox, request >>

\* ------------------------------------------- websocket_handler's loop
\* A client message: its type, and whether the run was executing when the
\* client sent it.
Message(type, during) == [type |-> type, during |-> during]
NoRequest == Message("none", FALSE)
MessageTypes == {"start_processing", "stop_agent", "get_agent_status"}

\* The run of the session is between its registration and its end.
Executing(r) ==
    task[r].cpc \notin {"idle", "done_ok", "done_fail", "raised"}

\* The client of connection 1 sends a message; it waits in the connection
\* until the handler's `async for` asks for it.
ClientSend(type) ==
    /\ cur = 0
    /\ wsState[1] = "open"
    /\ Len(inbox) < MaxInbox
    /\ \A i \in DOMAIN inbox : inbox[i].type # type
    /\ inbox' = Append(inbox, Message(type, Executing(1)))
    /\ UNCHANGED << connections, wsState, active_agents, processing_history,
                    agent, task, bc, cur, faults, mailbox, lastEvent, pubTick,
                    pub, terminal, executing, stageEvents, request, reply >>

\* `async for message in websocket`: the handler, which is not inside
\* handle_client_message, takes the next message.
HandlerReceive ==
    /\ cur = 0
    /\ request = NoRequest
    /\ inbox # << >>
    /\ request' = Head(inbox)
    /\ inbox' = Tail(inbox)
    /\ UNCHANGED << connections, wsState, active_agents, processing_history,
                    agent, task, bc, cur, faults, mailbox, lastEvent, pubTick,
                    pub, terminal, executing, stageEvents, reply >>

\* handle_client_message calls what the message asks for.
HandlerStart(r) ==
    /\ request.type = "start_processing"
    /\ StartProcessing(r, r)
HandlerStop(s) ==
    /\ request.type = "stop_agent"
    /\ \E id \in {1} : StopAgent(s, id)

\* handle_client_message has its answer (get_agent_status has it at once),
\* replies and returns to the loop.
HandlerReply ==
    /\ cur = 0
    /\ \/ request.type = "start_processing"
          /\ task[1].cpc \in {"done_ok", "done_fail", "raised"}
       \/ request.type = "stop_agent"
          /\ \E s \in OneStop : task[s].cpc \in {"true", "false", "raised"}
       \/ request.type = "get_agent_status"
    /\ request' = NoRequest
    /\ UNCHANGED << connections, wsState, active_agents, processing_history,
                    agent, task, bc, cur, faults, mailbox, lastEvent, pubTick,
                    pub, terminal, executing, stageEvents, inbox, reply >>

\* ------------------------------------------------------ specifications
\* A record an earlier run has left in the log: every run ends with a
\* COMPLETED record, whose recommendation is that of determine_recommendation
\* on the master's empty results, or with a FAILED one.
PastRecord(i, id, status) ==
    IF status = "COMPLETED"
    THEN [agent_id |-> id, status |-> "COMPLETED",
          recommendation |-> DetermineRecommendation(EmptyDict),
          critical_issues_count |-> 0, error |-> FALSE, by |-> i]
    ELSE [agent_id |-> id, status |-> "FAILED", recommendation |-> "absent",
          critical_issues_count |-> -1, error |-> TRUE, by |-> i]
Logs ==
    UNION {{[i \in 1..n |-> PastRecord(i, f[i][1], f[i][2])] :
               f \in [1..n -> IDS \X {"COMPLETED", "FAILED"}]} : n \in 0..MaxLog}

InitLog(mails, failures, logs) ==
    /\ connections = {}
    /\ wsState = [w \in WS |-> "new"]
    /\ active_agents = [id \in IDS |-> 0]
    /\ processing_history \in logs
    /\ agent = [r \in Runs |-> [u \in Units |-> NoAgent]]
    /\ task = [t \in Tasks |-> IdleTask]
    /\ bc = [t \in Tasks |-> IdleBc]
    /\ cur = 0
    /\ faults = failures
    /\ mailbox \in mails
    /\ lastEvent = NoEvent
    /\ pubTick = 0
    /\ terminal = {}
    /\ executing = {}
    /\ stageEvents = [once |-> {}, twice |-> {}]
    /\ inbox = << >>
    /\ request = NoRequest
    /\ reply = NoReply
    /\ pub = [k \in IDS \X Units |-> 0]

InitWith(mails, failures) == InitLog(mails, failures, {<< >>})

\* The steps of the units that every run takes.
UnitStep(t) ==
    \/ OpBegin(t) \/ OpUpdate(t) \/ OpSleep(t) \/ OpPublish(t)
    \/ OpPublished(t) \/ OpCall(t) \/ OpRaise(t) \/ OpUnit(t)
    \/ SendUpdateProgress(t) \/ SendUpdateReturn(t)

\* The steps only a run that gets past the intake's mail fetch takes.
AnalysisStep(t) ==
    \/ OpACall(t) \/ OpCheckReturn(t) \/ OpDone(t) \/ OpReturn(t)
    \/ RecordSuccess(t)

ControlStep(t) ==
    \/ StartExecute(t) \/ RecordFailure(t) \/ ReturnFailure(t)

\* One run from start to end, with clients connecting while it runs.
InitRun == InitWith({0, 1}, MaxFaults)
NextRun ==
    \/ \E id \in {1} : StartProcessing(1, id)
    \/ UnitStep(1) \/ AnalysisStep(1) \/ ControlStep(1)
    \/ BroadcastStep(1)
    \/ \E w \in WS : Register(w)
SpecRun == InitRun /\ [][NextRun]_vars

\* One run that finds the mailbox empty and one stop_agent call, with
\* clients coming and going.
Init == InitWith({0}, 0)
Next ==
    \/ \E id \in {1} : StartProcessing(1, id)
    \/ \E t \in {1} \cup OneStop : UnitStep(t)
    \/ ControlStep(1)
    \/ \E s \in OneStop : (\E id \in IDS : StopAgent(s, id)) \/ StopDelete(s)
    \/ \E t \in {1} \cup OneStop : BroadcastStep(t)
    \/ \E w \in WS :
          Register(w) \/ ConnectionClosed(w) \/ Unregister(w) \/ SendToClient(w)
Spec == Init /\ [][Next]_vars

\* Several start_processing calls (the mailbox is empty) and a stop_agent
\* call, with at most one client.
InitPipe == InitWith({0}, 0)
NextPipe ==
    \/ \E r \in Runs, id \in IDS : StartProcessing(r, id)
    \/ \E t \in Runs \cup OneStop : UnitStep(t)
    \/ \E r \in Runs : ControlStep(r)
    \/ \E s \in OneStop : (\E id \in IDS : StopAgent(s, id)) \/ StopDelete(s)
    \/ \E t \in Runs \cup OneStop : BroadcastStep(t)
    \/ \E w \in {1} : Register(w)
SpecPipe == InitPipe /\ [][NextPipe]_vars

\* One run that finds the mailbox empty and two stop_agent calls, with at
\* most one client.
InitStop == InitWith({0}, 0)
NextStop ==
    \/ \E id \in {1} : StartProcessing(1, id)
    \/ \E t \in {1} \cup Stops : UnitStep(t)
    \/ ControlStep(1)
    \/ \E s \in Stops : (\E id \in IDS : StopAgent(s, id)) \/ StopDelete(s)
    \/ \E t \in {1} \cup Stops : BroadcastStep(t)
    \/ \E w \in {1} : Register(w)
SpecStop == InitStop /\ [][NextStop]_vars

\* One client whose handler serves its messages: a start_processing, a
\* stop_agent and a get_agent_status request, the mailbox being empty.
InitSession == InitWith({0}, 0)
NextSession ==
    \/ Register(1)
    \/ \E type \in MessageTypes : ClientSend(type)
    \/ HandlerReceive
    \/ HandlerStart(1)
    \/ \E s \in OneStop : HandlerStop(s)
    \/ HandlerReply
    \/ UnitStep(1) \/ BroadcastStep(1)
    \/ ControlStep(1)
SpecSession == InitSession /\ [][NextSession]_vars

\* The queries of the history log, asked of the logs that runs leave.
InitQuery == InitLog({0}, 0, Logs)
NextQuery ==
    \/ \E limit \in 0..MaxLimit : HandleGetProcessingHistory(limit)
    \/ HandleGetPipelineStats
SpecQuery == InitQuery /\ [][NextQuery]_vars

\* ================================================================ claims
Records == {processing_history[i] : i \in DOMAIN processing_history}
RecordsBy(r) ==
    {i \in DOMAIN processing_history : processing_history[i].by = r}
RecordsOf(id) ==
    {i \in DOMAIN processing_history : processing_history[i].agent_id = id}
Returned(r) == task[r].cpc \in {"done_ok", "done_fail"}
Ended(r) == task[r].cpc \in {"done_ok", "done_fail", "raised"}

\* The fixed-precedence merge of the six findings of a results dict.
Merge(res) ==
    IF res.fraud.v = "HIGH" \/ res.excl.v = "true" \/ res.dups.v = "true"
    THEN "REJECT"
    ELSE IF res.disc.v = "true" \/ res.dates.v = "true"
            \/ res.comp.v = "true" \/ res.fraud.v = "MEDIUM"
    THEN "REVIEW"
    ELSE IF res.fraud.v = "LOW" THEN "APPROVE" ELSE "REVIEW"

\* C1: the overall recommendation that ClaimsAnalysisAgent.execute returns
\* for a completed analysis, and the recommendation of the run's COMPLETED
\* history record, equal the fixed-precedence merge of the six findings.
C1_RecommendationIsMerge ==
    \A r \in Runs :
        LET res == agent[r]["analysis"].results
        IN res.set =>
            /\ res.overall_recommendation = Merge(res)
            /\ \A i \in RecordsBy(r) :
                   processing_history[i].status = "COMPLETED"
                   => processing_history[i].recommendation = Merge(res)

\* The scenario of C2: the intake and the synthesis succeeded, every analysis
\* sub-step completed, fraud is MEDIUM and the five other findings are false.
C2_Scenario(r) ==
    LET res == agent[r]["analysis"].results
    IN /\ agent[r]["document"].status = "completed"
       /\ agent[r]["report"].status = "completed"
       /\ res.set
       /\ \A c \in Checks : res[c].c
       /\ res.fraud.v = "MEDIUM"
       /\ \A c \in {"excl", "disc", "dates", "dups", "comp"} : res[c].v = "false"

\* C2: a run of that scenario ends with a history record of status
\* COMPLETED, recommendation REVIEW and critical_issues_count 0.
C2_ScenarioEndsCompletedReview ==
    \A r \in Runs :
        C2_Scenario(r) /\ Ended(r) =>
            \E i \in RecordsBy(r) :
                /\ processing_history[i].status = "COMPLETED"
                /\ processing_history[i].recommendation = "REVIEW"
                /\ processing_history[i].critical_issues_count = 0

\* C3: the history log never holds more than the configured cap of records.
C3_HistoryCapped == Len(processing_history) <= HistoryCap

\* C4: when a start_processing call returns, it has appended exactly one
\* record for its run id (COMPLETED after the success path, FAILED with an
\* error after the failure path) and its run id is not in the active table.
C4_ReturnLeavesOneRecordAndInactive ==
    [][\A r \in Runs :
          ~Returned(r) /\ Returned(r)' =>
              /\ Cardinality(RecordsBy(r)') = 1
              /\ \A i \in RecordsBy(r)' :
                    /\ processing_history'[i].agent_id = task'[r].id
                    /\ processing_history'[i].status =
                          IF task'[r].cpc = "done_ok" THEN "COMPLETED"
                          ELSE "FAILED"
                    /\ processing_history'[i].error = (task'[r].cpc = "done_fail")
              /\ active_agents'[task'[r].id] = 0]_vars

\* C5: at every suspension point no run id is both a key of the active
\* table and the agent_id of a history record, and no run id has more than
\* one history record.
C5_ActiveAndHistoryDisjoint ==
    cur = 0 =>
        \A id \in IDS :
            /\ active_agents[id] # 0 => RecordsOf(id) = {}
            /\ Cardinality(RecordsOf(id)) <= 1

\* C6: once stop_agent(run_id), called on an active run, has ended, run_id is
\* not among get_active_agents() and get_agent_status(run_id) returns None.
C6_StoppedRunInactive ==
    \A s \in Stops :
        task[s].cpc \in {"true", "raised"} =>
            /\ task[s].id \notin GetActiveAgents
            /\ StatusIsNone(task[s].id)

\* C7: no call of WebSocketManager.broadcast raises to its caller.
C7_BroadcastNeverRaises == \A t \in Tasks : bc[t].res # "raise"

\* C8: when a broadcast returns, no connection its send failed on is in the
\* registry, every connection its send succeeded on that no other operation
\* removed meanwhile is in the registry, and every connection that was
\* registered from its start to its end was sent the event, whatever sends
\* failed before.
C8_BroadcastCleansUp ==
    \A t \in Tasks :
        bc[t].res = "ok" =>
            /\ bc[t].disc \cap connections = {}
            /\ (bc[t].sent \ bc[t].gone) \subseteq connections
            /\ (bc[t].start \cap connections) \subseteq bc[t].sent

\* A broadcast has returned after a send that failed and a later send, to
\* another connection, that succeeded.
C8_Witness ==
    \E t \in Tasks :
        /\ bc[t].res = "ok"
        /\ \E d \in bc[t].disc, w \in bc[t].sent : d < w /\ w \in connections

\* C9: no connection receives the event of a broadcast after the event of a
\* broadcast that was started later.
C9_PerSubscriberOrder == \A t \in Tasks : ~bc[t].overtaken

\* C10: for every agent id the progress values of its successive progress
\* events never decrease.
C10_ProgressNonDecreasing ==
    [][\A k \in DOMAIN pub : pub'[k] >= pub[k]]_vars

\* C11: once the master's terminal progress event (completion at 100, or
\* error) has been published for a run id, no progress, stage completion,
\* tool or analysis result event is published for that run id any more.
C11_NoEventAfterTerminal ==
    [][pubTick' # pubTick /\ lastEvent'.type # "text"
           => lastEvent'.id \notin terminal]_vars

\* Two start_processing calls (the mailbox is empty) and one client, which
\* may stop reading.  The event loop runs every task that can run.
InitSlow == InitWith({0}, 0)
RunStep(r) == UnitStep(r) \/ ControlStep(r) \/ BroadcastStep(r)
NextSlow ==
    \/ \E r \in Runs : StartProcessing(r, r)
    \/ \E r \in Runs : RunStep(r)
    \/ \E w \in {1} : Register(w) \/ Stall(w)
SpecSlow ==
    InitSlow /\ [][NextSlow]_vars /\ \A r \in Runs : WF_vars(RunStep(r))

\* C12: every run that has started ends, with its history record, also when
\* a subscriber's send neither completes nor fails.
C12_SlowSubscriberDoesNotStall ==
    \A r \in Runs :
        (task[r].cpc # "idle") ~> (Ended(r) /\ RecordsBy(r) # {})

\* C13: the analysis unit exists only once the intake unit has completed and
\* the report unit only once the analysis unit has completed; after the
\* intake unit has raised, the two other units are never constructed, no
\* event carries their sub-identifiers, and the run ends with a FAILED
\* record; and only a constructed unit publishes events.
C13_UnitsInOrder ==
    /\ [](\A r \in Runs :
            /\ agent[r]["analysis"].status # "none"
                   => agent[r]["document"].status = "completed"
            /\ agent[r]["report"].status # "none"
                   => agent[r]["analysis"].status = "completed"
            /\ agent[r]["document"].status = "failed" =>
                   /\ agent[r]["analysis"].status = "none"
                   /\ agent[r]["report"].status = "none"
                   /\ pub[<<task[r].id, "analysis">>] = 0
                   /\ pub[<<task[r].id, "report">>] = 0
                   /\ lastEvent.by = r => lastEvent.u \in {"master", "document", ""}
                   /\ Ended(r) =>
                          \A i \in RecordsBy(r) :
                              processing_history[i].status = "FAILED"
                   /\ Ended(r) => RecordsBy(r) # {})
    /\ [][\A r \in Runs :
            pubTick' # pubTick /\ lastEvent'.by = r /\ lastEvent'.u \in Units
                => agent'[r][lastEvent'.u].status # "none"]_vars

\* A run whose intake unit raised has ended, with its FAILED record.
C13_Witness ==
    \E r \in Runs :
        /\ agent[r]["document"].status = "failed"
        /\ Ended(r)
        /\ \E i \in RecordsBy(r) : processing_history[i].status = "FAILED"

\* The stages of the analysis unit that follow its setup.
AnalysisStages ==
    {"document_query", "fraud_detection", "exclusion_check",
     "amount_reconciliation", "date_validation", "duplicate_check",
     "compliance_validation", "final_assessment", "completion"}

\* C14: once the analysis unit has passed its setup (its recorded stage is
\* one of the sub-step stages), whatever sub-step calls raise, the unit never
\* becomes FAILED: every sub-step that raised is recorded with its completed
\* flag false, the unit ends COMPLETED, and a run whose report unit completed
\* as well is recorded COMPLETED.
C14_SubStepsNonFatal ==
    /\ [][\A r \in Runs :
            agent[r]["analysis"].current_stage \in AnalysisStages
                => agent'[r]["analysis"].status # "failed"]_vars
    /\ [](\A r \in Runs :
            /\ agent[r]["analysis"].results.set
                   => \A c \in Checks :
                          agent[r]["analysis"].results[c] # Unset
            /\ Ended(r) /\ agent[r]["report"].status = "completed"
                   => \A i \in RecordsBy(r) :
                          processing_history[i].status = "COMPLETED")

\* C15: a unit's status only moves forward: a constructed unit is
\* Initialized, it goes from Initialized to Processing and from Processing
\* to Completed, Failed or Paused; Completed and Failed never change again
\* and Paused is entered from Processing only, whenever stop_agent is called.
C15_StatusOnlyForward ==
    [][\A r \in Runs : \A u \in Units :
         LET old == agent[r][u].status
             new == agent'[r][u].status
         IN new # old =>
                \/ old = "none" /\ new = "initialized"
                \/ old = "initialized" /\ new = "processing"
                \/ old = "processing" /\ new \in {"completed", "failed", "paused"}
                \/ old = "paused" /\ new \in {"completed", "failed"}]_vars

\* Task t calls send_update in this step.
Called(t) == ~task[t].su.on /\ task'[t].su.on
\* A StageCompletionEvent is published in this step.
StagePublished == pubTick' # pubTick /\ lastEvent'.type = "stage_completion"

C17_ToolEventsPaired ==
    \A x \in executing : task[x[1]].frame = x[2]

\* C18: no two start_processing calls get the same run id: a call never
\* registers its master over the entry of a run that is still active, and
\* no two history records have the same agent_id.
C18_RunIdsUnique ==
    /\ \A r1, r2 \in Runs :
           r1 # r2 /\ task[r1].cpc # "idle" /\ task[r2].cpc # "idle"
               => task[r1].id # task[r2].id
    /\ \A i, j \in DOMAIN processing_history :
           i # j => processing_history[i].agent_id
                        # processing_history[j].agent_id

\* The four critical conditions in their fixed order, and when each holds
\* of the findings of an analysis.
IssueOrder ==
    << "HIGH FRAUD RISK", "TREATY EXCLUSION VIOLATIONS",
       "DUPLICATE CLAIMS DETECTED", "AMOUNT DISCREPANCIES" >>
Holds(res, issue) ==
    CASE issue = "HIGH FRAUD RISK" -> res.fraud.v = "HIGH"
      [] issue = "TREATY EXCLUSION VIOLATIONS" -> res.excl.v = "true"
      [] issue = "DUPLICATE CLAIMS DETECTED" -> res.dups.v = "true"
      [] issue = "AMOUNT DISCREPANCIES" -> res.disc.v = "true"

\* C19: for every run recorded COMPLETED, the critical-issue list of its
\* final results has exactly one entry per condition that holds of its
\* analysis findings, in the fixed order, whatever the recommendation, and
\* the record's critical_issues_count is the number of those conditions.
C19_CriticalIssuesListed ==
    \A r \in Runs : \A i \in RecordsBy(r) :
        processing_history[i].status = "COMPLETED" =>
            LET res == agent[r]["analysis"].results
                final == agent[r]["master"].results
                holding == {k \in DOMAIN IssueOrder : Holds(res, IssueOrder[k])}
            IN /\ Len(final.critical_issues) = Cardinality(holding)
               /\ \A k \in DOMAIN final.critical_issues :
                      LET at == CHOOSE j \in holding :
                                    Cardinality({m \in holding : m < j}) = k - 1
                      IN final.critical_issues[k] = IssueOrder[at]
               /\ processing_history[i].critical_issues_count
                      = Cardinality(holding)

\* A run is recorded COMPLETED with the duplicates and the reconciliation
\* conditions holding, and at least three of the four in all.
C19_Witness ==
    \E r \in Runs : \E i \in RecordsBy(r) :
        /\ processing_history[i].status = "COMPLETED"
        /\ processing_history[i].critical_issues_count >= 3
        /\ agent[r]["analysis"].results.dups.v = "true"
        /\ agent[r]["analysis"].results.disc.v = "true"

\* The six checks whose findings decide the recommendation.
SixChecks == {"fraud", "excl", "disc", "dates", "dups", "comp"}
\* Run r's analysis returned with one of the six checks not completed.
CheckFailed(r) ==
    /\ agent[r]["analysis"].results.set
    /\ \E c \in SixChecks : ~agent[r]["analysis"].results[c].c

\* C20: a run recorded COMPLETED in which one of the six analysis checks
\* failed to run (its completed flag is false) does not have the
\* recommendation APPROVE, in its final results or in its history record.
C20_NoApproveAfterFailedCheck ==
    \A r \in Runs : \A i \in RecordsBy(r) :
        processing_history[i].status = "COMPLETED" /\ CheckFailed(r) =>
            /\ processing_history[i].recommendation # "APPROVE"
            /\ agent[r]["master"].results.overall_recommendation # "APPROVE"

\* A run is recorded COMPLETED although its exclusion check failed to run,
\* the fraud risk being LOW and no other finding raised.
C20_Witness ==
    \E r \in Runs : \E i \in RecordsBy(r) :
        /\ processing_history[i].status = "COMPLETED"
        /\ CheckFailed(r)
        /\ ~agent[r]["analysis"].results.excl.c
        /\ agent[r]["analysis"].results.fraud.v = "LOW"
        /\ \A c \in SixChecks \ {"fraud"} :
               agent[r]["analysis"].results[c].v = "false"

\* Task t takes a step: its control state, or the position or the outcome
\* of its broadcast, changes.
ByTask(t) ==
    \/ task'[t] # task[t]
    \/ bc'[t].on # bc[t].on \/ bc'[t].pos # bc[t].pos \/ bc'[t].res # bc[t].res

\* C21: a stop_agent call changes only the run it stops: every step of the
\* call leaves the history log, the registered connections that are open,
\* the units and the position of every other run and the other entries of
\* the active-run table as they are; the call sets the master PAUSED, and
\* when it ends the run is no longer in the active-run table.  A call for an
\* id that is not active returns False and changes nothing.
C21_StopChangesOnlyItsRun ==
    [][\A s \in Stops :
         ByTask(s) =>
             LET id == task'[s].id
                 target == task'[s].target
             IN /\ processing_history' = processing_history
                /\ connections' \subseteq connections
                /\ \A w \in connections :
                       wsState[w] = "open" => w \in connections'
                /\ \A r \in Runs \ {target} :
                       agent'[r] = agent[r] /\ task'[r] = task[r]
                /\ \A j \in IDS \ {id} : active_agents'[j] = active_agents[j]
                /\ \A r \in Runs \ {target} :
                       (\E j \in IDS : active_agents[j] = r)
                           => \E j \in IDS : active_agents'[j] = r
                /\ task[s].cpc = "idle" /\ task'[s].cpc = "stopping"
                       => agent'[target]["master"].status = "paused"
                /\ task[s].cpc # task'[s].cpc
                   /\ task'[s].cpc \in {"true", "raised"}
                       => active_agents'[id] # target
                /\ task'[s].cpc = "false" =>
                       /\ agent' = agent
                       /\ active_agents' = active_agents
                       /\ connections' = connections
                       /\ \A r \in Runs : task'[r] = task[r]]_vars

\* The units that come after a sub-unit in the master's sequence.
LaterUnits(u) ==
    CASE u = "document" -> {"analysis", "report"}
      [] u = "analysis" -> {"report"}
      [] OTHER -> {}

\* C22: once a sub-unit has failed, no later unit is ever constructed, the
\* unit itself only runs its except block, the master's error ProgressEvent
\* is published only after the unit's, the FAILED record (with its error
\* string) is appended only after the master's error ProgressEvent, and
\* start_processing ends by returning its failure result.
C22_FatalFailureOrder ==
    /\ [](\A r \in Runs : \A u \in SubUnits :
            agent[r][u].status = "failed" =>
                /\ \A v \in LaterUnits(u) : agent[r][v].status = "none"
                /\ agent[r]["master"].current_stage = "error"
                       => agent[r][u].current_stage = "error"
                /\ \A i \in RecordsBy(r) :
                       /\ processing_history[i].status = "FAILED"
                       /\ processing_history[i].error
                       /\ agent[r]["master"].current_stage = "error"
                /\ Ended(r) => task[r].cpc = "done_fail" /\ RecordsBy(r) # {})
    /\ [][\A r \in Runs : \A u \in SubUnits :
            /\ agent[r][u].status = "failed"
            /\ task[r].frame = u /\ task'[r].frame = u
            => Program(u)[task'[r].upc].k \in {"errupd", "reraise"}]_vars

\* Task t's send_update returns in this step (its last broadcast did not
\* raise).
SuReturns(t) == task[t].su.on /\ ~task'[t].su.on /\ bc[t].res # "raise"

\* C23: the StageCompletionEvent of a send_update call whose stage differs
\* from the recorded one is published at the call, before the call's
\* ProgressEvent; it names the stage recorded before the call and its
\* success flag is true exactly when the call carries no error; and when the
\* call returns the recorded stage is the call's stage.
C23_StageCompletionThenProgress ==
    [][\A t \in Tasks :
         /\ Called(t) /\ StagePublished =>
                LET su == task'[t].su
                IN /\ lastEvent'.stage = agent[su.r][su.u].current_stage
                   /\ lastEvent'.stage # su.stage
                   /\ lastEvent'.status = "success" <=> ~su.error
         /\ pubTick' # pubTick /\ lastEvent'.type = "agent_progress"
            /\ lastEvent'.by = t
                => /\ task[t].su.on /\ task[t].su.phase = "stage"
                   /\ lastEvent'.stage = task[t].su.stage
         /\ SuReturns(t) =>
                agent'[task[t].su.r][task[t].su.u].current_stage
                    = task[t].su.stage]_vars

\* C24: no stage of a unit is named by two StageCompletionEvents, and once
\* a run has ended every stage its units were last in has been named by
\* one.
C24_OneCompletionPerStage ==
    /\ stageEvents.twice = {}
    /\ \A r \in Runs : \A u \in Units :
           Ended(r) /\ agent[r][u].current_stage # ""
               => <<task[r].id, u, agent[r][u].current_stage>>
                      \in stageEvents.once

\* C25: a stop_agent call that has broadcast its stopping event does not
\* raise on the active-run table: it returns, also when the run has removed
\* itself from the table meanwhile.
C25_StopNeverRaises ==
    [][\A s \in Stops :
         task[s].cpc = "del" => task'[s].cpc # "raised"]_vars

\* C26: start_processing never raises to its caller: a call that has ended
\* has returned, and one that did not succeed has returned its failure
\* result after appending a FAILED record.
C26_StartNeverRaises ==
    \A r \in Runs :
        /\ task[r].cpc # "raised"
        /\ task[r].cpc = "done_fail" =>
               \E i \in RecordsBy(r) : processing_history[i].status = "FAILED"

\* C27: a stop_agent or get_agent_status request the client sent while the
\* run it started was executing is handled before that run ends: when the
\* run has ended no such request is still waiting to be read.
C27_RequestsServedDuringRun ==
    task[1].cpc \in {"done_ok", "done_fail", "raised"} =>
        \A i \in DOMAIN inbox :
            inbox[i].type \in {"stop_agent", "get_agent_status"}
                => ~inbox[i].during
\* The last k records of the log, in the order they were appended.
MostRecent(k) ==
    LET n == Len(processing_history)
    IN SubSeq(processing_history, (n - k) + 1, n)

\* C28: get_processing_history(limit), limit >= 0, returns at most limit
\* records, namely the most recent ones in append order, and leaves the log
\* unchanged.
C28_HistoryAtMostLimit ==
    /\ [](reply.type = "processing_history" =>
            LET n == Len(processing_history)
                k == IF reply.limit < n THEN reply.limit ELSE n
            IN /\ Len(reply.history) <= reply.limit
               /\ reply.history = MostRecent(k))
    /\ [][reply' # reply => processing_history' = processing_history]_vars

\* The sum of the counts of a breakdown.
RECURSIVE SumOver(_, _)
SumOver(f, keys) ==
    IF keys = {} THEN 0
    ELSE LET k == CHOOSE x \in keys : TRUE
         IN f[k] + SumOver(f, keys \ {k})

\* C29: get_pipeline_stats returns successful + failed = total_processed =
\* the length of the log; the counts of recommendations_breakdown sum to
\* total_processed, every FAILED record counted under UNKNOWN; success_rate
\* is 0 for an empty log; the call changes neither the log nor the
\* active-run table.
C29_StatsAddUp ==
    /\ [](reply.type = "pipeline_stats" =>
            LET stats == reply.stats
                breakdown == stats.recommendations_breakdown
            IN /\ stats.successful + stats.failed = stats.total_processed
               /\ stats.total_processed = Len(processing_history)
               /\ SumOver(breakdown, DOMAIN breakdown) = stats.total_processed
               /\ stats.failed > 0 =>
                      /\ "UNKNOWN" \in DOMAIN breakdown
                      /\ breakdown["UNKNOWN"] >= stats.failed
               /\ stats.total_processed = 0 => stats.success_rate = 0)
    /\ [][reply' # reply => /\ processing_history' = processing_history
                            /\ active_agents' = active_agents]_vars
C29_Witness ==
    /\ reply.type = "pipeline_stats"
    /\ reply.stats.successful >= 1
    /\ reply.stats.failed >= 2
    /\ reply.stats.recommendations_breakdown["UNKNOWN"] = 2

\* The analysis check a critical issue is derived from.
CheckOf(issue) ==
    CASE issue = "HIGH FRAUD RISK" -> "fraud"
      [] issue = "TREATY EXCLUSION VIOLATIONS" -> "excl"
      [] issue = "DUPLICATE CLAIMS DETECTED" -> "dups"
      [] issue = "AMOUNT DISCREPANCIES" -> "disc"

\* C30: every entry of the critical-issue list of a run recorded COMPLETED
\* stems from a check whose completed flag is true: a check that failed to
\* run contributes no critical issue.
C30_IssuesFromCompletedChecks ==
    \A r \in Runs : \A i \in RecordsBy(r) :
        processing_history[i].status = "COMPLETED" =>
            LET issues == agent[r]["master"].results.critical_issues
            IN \A k \in DOMAIN issues :
                   Completed(agent[r]["analysis"].results, CheckOf(issues[k]))

============================================================================
